---------------------------- MODULE Spec2Model ----------------------------
(***************************************************************************)
(* The LiquidGlass component (my-app/components/LiquidGlass.tsx): the      *)
(* displacement-map generator updateShader, stepped pixel by pixel on      *)
(* small regions (SpecGen), and the component around it, its size state,   *)
(* the ResizeObserver callback and the effect that re-runs updateShader    *)
(* (SpecComp).                                                             *)
(*                                                                         *)
(* Numbers.  A JavaScript number is an IEEE 754 double, and is modelled as *)
(* one: a class (finite, infinite, NaN), a sign, and for a finite number a *)
(* 53-bit significand m and an exponent e, the value being m * 2^e.  The   *)
(* significand is held in two 28-bit limbs (hi, lo), m = hi * 2^28 + lo,   *)
(* and is normalised, 2^52 <= m < 2^53, or zero.  Sums, products,          *)
(* quotients and square roots are rounded to nearest, ties to even, as the *)
(* hardware rounds them.  The numbers of updateShader on the regions       *)
(* modelled stay between 2^-250 and 2^10 in magnitude when they are not    *)
(* zero, so the exponent never leaves the range of normal doubles and      *)
(* neither subnormals nor overflow to Infinity arise from rounding.        *)
(***************************************************************************)
EXTENDS Integers, Sequences, FiniteSets

\* ------------------------------------------------------------- bounds
\* Largest region side, in pixels, on which the generator is stepped.
MaxDim == 3
\* Largest number of entries one ResizeObserver callback receives.
MaxEntries == 2

\* ------------------------------------------ integers of the model
Abs(a) == IF a < 0 THEN -a ELSE a

Max2(a, b) == IF a >= b THEN a ELSE b

Min2(a, b) == IF a <= b THEN a ELSE b

\* ------------------------------------- significands: two 28-bit limbs
\* The limb base 2^28, and the half-limb base 2^14 used by the multiplier.
LimbBase == 268435456
HalfLimbBase == 16384

\* 2 * b.
BShl1(b) == << 2 * b[1] + b[2] \div (LimbBase \div 2), (2 * b[2]) % LimbBase >>

\* b \div 2, with a bit shifted out kept in bit 0 (the sticky bit).
BShr1Jam(b) ==
  LET nlo == b[2] \div 2 + (b[1] % 2) * (LimbBase \div 2)
  IN  << b[1] \div 2, IF b[2] % 2 = 1 /\ nlo % 2 = 0 THEN nlo + 1 ELSE nlo >>

\* b with bit 0 set.
BOdd(b) == << b[1], IF b[2] % 2 = 0 THEN b[2] + 1 ELSE b[2] >>

\* b < 2^58 shifted right by n bits, the bits shifted out kept in bit 0.
BShrJam(b, n) ==
  IF n = 0 THEN b
  ELSE IF n >= 58 THEN << 0, IF b = << 0, 0 >> THEN 0 ELSE 1 >>
  ELSE IF n >= 28
       THEN LET p == 2 ^ (n - 28)
                k == << 0, b[1] \div p >>
            IN  IF b[2] # 0 \/ b[1] % p # 0 THEN BOdd(k) ELSE k
  ELSE LET p == 2 ^ n
           k == << b[1] \div p, b[2] \div p + (b[1] % p) * 2 ^ (28 - n) >>
       IN  IF b[2] % p # 0 THEN BOdd(k) ELSE k

\* b * 2^k, for a b with b * 2^k < 2^59.
BShl(b, k) ==
  IF k >= 28 THEN << b[2] * 2 ^ (k - 28), 0 >>
  ELSE << b[1] * 2 ^ k + b[2] \div 2 ^ (28 - k), (b[2] % 2 ^ (28 - k)) * 2 ^ k >>

\* b * 2^k < 2^56.
Fits(b, k) ==
  IF k >= 28 THEN b[1] = 0 /\ b[2] < 2 ^ (56 - k) ELSE b[1] < 2 ^ (28 - k)

BLess(a, b) == a[1] < b[1] \/ (a[1] = b[1] /\ a[2] < b[2])

BAdd(a, b) ==
  LET lo == a[2] + b[2]
  IN  << a[1] + b[1] + lo \div LimbBase, lo % LimbBase >>

\* a - b for a >= b.
BSub(a, b) ==
  IF a[2] < b[2] THEN << a[1] - b[1] - 1, a[2] - b[2] + LimbBase >>
  ELSE << a[1] - b[1], a[2] - b[2] >>

\* ---------------------------------------------------------- doubles
Fin(s, e, hi, lo) == [cls |-> "fin", sign |-> s, exp |-> e, hi |-> hi, lo |-> lo]
Zero(s) == Fin(s, 0, 0, 0)
Inf(s) == [cls |-> "inf", sign |-> s, exp |-> 0, hi |-> 0, lo |-> 0]
NaN == [cls |-> "nan", sign |-> 0, exp |-> 0, hi |-> 0, lo |-> 0]

\* The doubles.  The arithmetic below is defined on them as functions, whose
\* arguments are values: a number is computed before it is used.
Double == [cls : {"fin", "inf", "nan"}, sign : {0, 1}, exp : Int, hi : Nat, lo : Nat]

IsZero(a) == a.cls = "fin" /\ a.hi = 0 /\ a.lo = 0

Mant(a) == << a.hi, a.lo >>

\* The significand with three more bits below it: guard, round and sticky.
Ext(a) == BShl1(BShl1(BShl1(Mant(a))))

\* A significand, or a multiple of one, in its two limbs.
Big == Nat \X Nat

\* The pair n = << e, x >>, standing for x * 2^e, shifted left by k bits if x
\* stays below 2^56.
NormLeft[n \in Int \X Big, k \in Nat] ==
  IF Fits(n[2], k) THEN << n[1] - k, BShl(n[2], k) >> ELSE n

\* The same shifted right by one bit if x is 2^56 or more.
NormRight[n \in Int \X Big] ==
  IF n[2][1] >= LimbBase THEN << n[1] + 1, BShr1Jam(n[2]) >> ELSE n

\* The pair n = << e, x >>, 0 < x < 2^58, standing for x * 2^e, with x brought
\* into [2^55, 2^56).
Norm[n \in Int \X Big] ==
  NormLeft[NormLeft[NormLeft[NormLeft[NormLeft[NormLeft[NormRight[NormRight[n]],
    32], 16], 8], 4], 2], 1]

\* A 56-bit x without its three low bits, rounded to nearest on them, ties
\* to even.
RoundEven[x \in Big] ==
  LET low3 == x[2] % 8
      m == << x[1] \div 8, x[2] \div 8 + (x[1] % 8) * (LimbBase \div 8) >>
  IN  IF low3 > 4 \/ (low3 = 4 /\ m[2] % 2 = 1) THEN BAdd(m, << 0, 1 >>) ELSE m

\* The double (-1)^s * m * 2^(e + 3) for m <= 2^53; m = 2^53 is what rounding
\* up the largest significand gives.
Pack[s \in {0, 1}, e \in Int, m \in Big] ==
  IF m[1] >= LimbBase \div 8 THEN Fin(s, e + 4, LimbBase \div 16, 0)
  ELSE Fin(s, e + 3, m[1], m[2])

\* The double nearest to (-1)^s * x * 2^e for a normalised pair n = << e, x >>.
Round[s \in {0, 1}, n \in Int \X Big] == Pack[s, n[1], RoundEven[n[2]]]

\* The double nearest to (-1)^s * x * 2^e, ties to even; x # 0 carries its
\* sticky bit in bit 0.
RoundPack[s \in {0, 1}, e \in Int, x \in Big] == Round[s, Norm[<< e, x >>]]

\* The integer k of the code (a pixel index, a size, a literal) as a double.
FromInt[k \in Int] ==
  IF k = 0 THEN Zero(0) ELSE RoundPack[IF k < 0 THEN 1 ELSE 0, 0, << 0, Abs(k) >>]

\* -a.
FNeg[a \in Double] == IF a.cls = "nan" THEN NaN ELSE [a EXCEPT !.sign = 1 - a.sign]

\* Math.abs(a).
FAbs[a \in Double] == IF a.cls = "nan" THEN NaN ELSE [a EXCEPT !.sign = 0]

\* The sum of (-1)^sa * xa * 2^e and (-1)^sb * xb * 2^e, rounded.
AddAligned[sa \in {0, 1}, xa \in Big, sb \in {0, 1}, xb \in Big, e \in Int] ==
  IF sa = sb THEN RoundPack[sa, e, BAdd(xa, xb)]
  ELSE IF xa = xb THEN Zero(0)
  ELSE IF BLess(xa, xb) THEN RoundPack[sb, e, BSub(xb, xa)]
  ELSE RoundPack[sa, e, BSub(xa, xb)]

\* a + b.
FAdd[a \in Double, b \in Double] ==
  IF a.cls = "nan" \/ b.cls = "nan" THEN NaN
  ELSE IF a.cls = "inf" THEN (IF b.cls = "inf" /\ b.sign # a.sign THEN NaN ELSE a)
  ELSE IF b.cls = "inf" THEN b
  ELSE IF IsZero(a)
       THEN (IF IsZero(b) THEN Zero(IF a.sign = 1 /\ b.sign = 1 THEN 1 ELSE 0) ELSE b)
  ELSE IF IsZero(b) THEN a
  ELSE AddAligned[a.sign, BShrJam(Ext(a), Max2(a.exp, b.exp) - a.exp),
                  b.sign, BShrJam(Ext(b), Max2(a.exp, b.exp) - b.exp),
                  Max2(a.exp, b.exp) - 3]

\* a - b.
FSub[a \in Double, b \in Double] == FAdd[a, FNeg[b]]

\* floor(ma * mb / 2^50) for two significands, the bits below kept in bit 0:
\* the schoolbook product on 14-bit limbs.
MulTop(ma, mb) ==
  LET a0 == ma[2] % HalfLimbBase
      a1 == ma[2] \div HalfLimbBase
      a2 == ma[1] % HalfLimbBase
      a3 == ma[1] \div HalfLimbBase
      b0 == mb[2] % HalfLimbBase
      b1 == mb[2] \div HalfLimbBase
      b2 == mb[1] % HalfLimbBase
      b3 == mb[1] \div HalfLimbBase
      s0 == a0 * b0
      s1 == a0 * b1 + a1 * b0 + s0 \div HalfLimbBase
      s2 == a0 * b2 + a1 * b1 + a2 * b0 + s1 \div HalfLimbBase
      s3 == a0 * b3 + a1 * b2 + a2 * b1 + a3 * b0 + s2 \div HalfLimbBase
      s4 == a1 * b3 + a2 * b2 + a3 * b1 + s3 \div HalfLimbBase
      s5 == a2 * b3 + a3 * b2 + s4 \div HalfLimbBase
      s6 == a3 * b3 + s5 \div HalfLimbBase
      s7 == s6 \div HalfLimbBase
      c3 == s3 % HalfLimbBase
      c4 == s4 % HalfLimbBase
      c5 == s5 % HalfLimbBase
      c6 == s6 % HalfLimbBase
      below == s0 % HalfLimbBase # 0 \/ s1 % HalfLimbBase # 0
                 \/ s2 % HalfLimbBase # 0 \/ c3 % 256 # 0
      lo == c3 \div 256 + c4 * 64 + (c5 % 256) * 1048576
      hi == c5 \div 256 + c6 * 64 + s7 * 1048576
  IN  IF below THEN BOdd(<< hi, lo >>) ELSE << hi, lo >>

\* a * b.
FMul[a \in Double, b \in Double] ==
  IF a.cls = "nan" \/ b.cls = "nan" THEN NaN
  ELSE LET s == (a.sign + b.sign) % 2
       IN  IF a.cls = "inf" \/ b.cls = "inf"
           THEN (IF IsZero(a) \/ IsZero(b) THEN NaN ELSE Inf(s))
           ELSE IF IsZero(a) \/ IsZero(b) THEN Zero(s)
           ELSE RoundPack[s, a.exp + b.exp + 50, MulTop(Mant(a), Mant(b))]

\* One step of the long division: st = << rem, q, d >> is the running
\* remainder, the quotient bits so far and the divisor.
DivStep[st \in Big \X Big \X Big] ==
  IF BLess(st[1], st[3]) THEN << BShl1(st[1]), BShl1(st[2]), st[3] >>
  ELSE << BShl1(BSub(st[1], st[3])), BOdd(BShl1(st[2])), st[3] >>

\* Eight steps.
DivStep8[st \in Big \X Big \X Big] ==
  DivStep[DivStep[DivStep[DivStep[DivStep[DivStep[DivStep[DivStep[st]]]]]]]]

\* 8 * k steps.
DivLoop[st \in Big \X Big \X Big, k \in Nat] ==
  IF k = 0 THEN st ELSE DivLoop[DivStep8[st], k - 1]

\* The quotient bits of st, with the sticky bit of its remainder in bit 0.
DivQuot[st \in Big \X Big \X Big] ==
  IF st[1] # << 0, 0 >> THEN BOdd(st[2]) ELSE st[2]

\* The first 57 bits of the quotient of rem / d, rem < 2 * d, with the sticky
\* bit of the remainder in bit 0.
DivBits[rem \in Big, d \in Big] ==
  DivQuot[DivStep[DivLoop[<< rem, << 0, 0 >>, d >>, 7]]]

\* a / b.
FDiv[a \in Double, b \in Double] ==
  IF a.cls = "nan" \/ b.cls = "nan" THEN NaN
  ELSE LET s == (a.sign + b.sign) % 2
       IN  IF a.cls = "inf" THEN (IF b.cls = "inf" THEN NaN ELSE Inf(s))
           ELSE IF b.cls = "inf" THEN Zero(s)
           ELSE IF IsZero(b) THEN (IF IsZero(a) THEN NaN ELSE Inf(s))
           ELSE IF IsZero(a) THEN Zero(s)
           ELSE RoundPack[s, a.exp - b.exp - 56,
                          DivBits[Mant(a), Mant(b)]]

\* Bits 2j+1 and 2j of a 54-bit m, j in 0..26.
BitPair(m, j) == IF j < 14 THEN (m[2] \div 4 ^ j) % 4 ELSE (m[1] \div 4 ^ (j - 14)) % 4

\* The trial subtraction of a square-root step: r4 is the remainder with
\* the next pair of bits brought down, t is 4 * root + 1.
SqrtTry[r4 \in Big, t \in Big, st \in Big \X Big \X Nat \X Big] ==
  IF BLess(r4, t) THEN << r4, BShl1(st[2]), st[3] - 1, st[4] >>
  ELSE << BSub(r4, t), BOdd(BShl1(st[2])), st[3] - 1, st[4] >>

\* One step of the digit-by-digit square root of m * 2^56: st = << rem, root,
\* n, m >> is the running remainder, the root bits so far and the number of
\* pairs of bits still to come; the next pair is pair n - 29 of m, or zero.
SqrtStep[st \in Big \X Big \X Nat \X Big] ==
  SqrtTry[BAdd(BShl1(BShl1(st[1])),
               << 0, IF st[3] >= 29 THEN BitPair(st[4], st[3] - 29) ELSE 0 >>),
          BOdd(BShl1(BShl1(st[2]))), st]

\* Eleven steps.
SqrtStep11[st \in Big \X Big \X Nat \X Big] ==
  SqrtStep[SqrtStep[SqrtStep[SqrtStep[SqrtStep[SqrtStep[SqrtStep[SqrtStep[SqrtStep[
    SqrtStep[SqrtStep[st]]]]]]]]]]]

\* The steps that remain, eleven at a time.
SqrtLoop[st \in Big \X Big \X Nat \X Big] ==
  IF st[3] = 0 THEN st ELSE SqrtLoop[SqrtStep11[st]]

\* The root bits of st, with the sticky bit of its remainder in bit 0.
SqrtRoot[st \in Big \X Big \X Nat \X Big] ==
  IF st[1] # << 0, 0 >> THEN BOdd(st[2]) ELSE st[2]

\* The integer square root of m * 2^56 for a 54-bit m (55 bits, in 55 steps),
\* with the sticky bit of the remainder in bit 0.
SqrtBits[m \in Big] ==
  SqrtRoot[SqrtLoop[<< << 0, 0 >>, << 0, 0 >>, 55, m >>]]

\* Math.sqrt(a).
FSqrt[a \in Double] ==
  IF a.cls = "nan" THEN NaN
  ELSE IF IsZero(a) THEN a
  ELSE IF a.sign = 1 THEN NaN
  ELSE IF a.cls = "inf" THEN a
  ELSE IF a.exp % 2 # 0
       THEN RoundPack[0, (a.exp - 57) \div 2, SqrtBits[BShl1(Mant(a))]]
  ELSE RoundPack[0, (a.exp - 56) \div 2, SqrtBits[Mant(a)]]

\* |a| < |b| for numbers that are not NaN.
MagLess(a, b) ==
  IF a.cls = "inf" THEN FALSE
  ELSE IF b.cls = "inf" THEN TRUE
  ELSE IF IsZero(b) THEN FALSE
  ELSE IF IsZero(a) THEN TRUE
  ELSE a.exp < b.exp \/ (a.exp = b.exp /\ BLess(Mant(a), Mant(b)))

\* a < b.
FLess(a, b) ==
  IF a.cls = "nan" \/ b.cls = "nan" THEN FALSE
  ELSE IF a.sign # b.sign THEN a.sign = 1 /\ ~(IsZero(a) /\ IsZero(b))
  ELSE IF a.sign = 0 THEN MagLess(a, b)
  ELSE MagLess(b, a)

\* a <= b.
FLeq(a, b) == a.cls # "nan" /\ b.cls # "nan" /\ ~FLess(b, a)

\* Math.max(a, b).
FMax[a \in Double, b \in Double] ==
  IF a.cls = "nan" \/ b.cls = "nan" THEN NaN
  ELSE IF IsZero(a) /\ IsZero(b) THEN Zero(a.sign * b.sign)
  ELSE IF FLess(a, b) THEN b ELSE a

\* Math.min(a, b).
FMin[a \in Double, b \in Double] ==
  IF a.cls = "nan" \/ b.cls = "nan" THEN NaN
  ELSE IF IsZero(a) /\ IsZero(b) THEN Zero(Max2(a.sign, b.sign))
  ELSE IF FLess(a, b) THEN a ELSE b

\* The decimal literal n/d of the code (0.5 is Lit(1, 2)): the double nearest
\* to it, which is what dividing the two integers gives.
Lit(n, d) == FDiv[FromInt[n], FromInt[d]]

\* The store into a Uint8ClampedArray element: NaN becomes 0, the value is
\* clamped to 0..255 and rounded to the nearest integer (halves to even).
ToUint8Clamped[x \in Double] ==
  IF x.cls = "nan" THEN 0
  ELSE IF x.cls = "inf" THEN (IF x.sign = 1 THEN 0 ELSE 255)
  ELSE IF IsZero(x) \/ x.sign = 1 THEN 0
  ELSE IF ~FLess(x, FromInt[255]) THEN 255
  ELSE LET q == BShrJam(Mant(x), -(x.exp + 2))
           n == q[2] \div 4
           low == q[2] % 4
       IN  IF low = 3 THEN n + 1
           ELSE IF low = 2 THEN (IF n % 2 = 0 THEN n ELSE n + 1)
           ELSE n


\* ------------------------------------------------- utility functions
\* t * t * (3 - 2 * t), the return of smoothStep for its clamped t.
Hermite[t \in Double] == FMul[FMul[t, t], FSub[FromInt[3], FMul[FromInt[2], t]]]

\* smoothStep(a, b, t): the ratio (t - a) / (b - a) clamped to [0, 1], then
\* t * t * (3 - 2 * t).
smoothStep(a, b, t) ==
  Hermite[FMax[FromInt[0], FMin[FromInt[1], FDiv[FSub[t, a], FSub[b, a]]]]]

\* length(x, y) = Math.sqrt(x * x + y * y).
length(x, y) == FSqrt[FAdd[FMul[x, x], FMul[y, y]]]

\* The return of roundedRectSDF for its qx and qy.
RectDistance[qx \in Double, qy \in Double, radius \in Double] ==
  FSub[FAdd[FMin[FMax[qx, qy], FromInt[0]],
            length(FMax[qx, FromInt[0]], FMax[qy, FromInt[0]])],
       radius]

\* roundedRectSDF with Math.abs(x) lost: the field is no longer even in x.
roundedRectSDF_NoAbs(x, y, w, h, radius) ==
  RectDistance[FAdd[FSub[x, w], radius], FAdd[FSub[FAbs[y], h], radius], radius]

\* roundedRectSDF(x, y, w, h, radius): signed distance to the rounded
\* rectangle of half-extents (w, h).
roundedRectSDF(x, y, w, h, radius) ==
  RectDistance[FAdd[FSub[FAbs[x], w], radius], FAdd[FSub[FAbs[y], h], radius], radius]

\* The constants of the fragment-shader body.
Half == Lit(1, 2)
HalfExtentX == Lit(3, 10)
HalfExtentY == Lit(2, 10)
EdgeFrom == Lit(8, 10)
EdgeMargin == Lit(15, 100)

\* scaled, for the centred coordinates (ix, iy) of a pixel.
Scaled[ix \in Double, iy \in Double, elasticity \in Double] ==
  smoothStep(FromInt[0], FromInt[1],
             smoothStep(EdgeFrom, FromInt[0],
                        FSub[roundedRectSDF(ix, iy, HalfExtentX, HalfExtentY, elasticity),
                             EdgeMargin]))

\* pos = (ix * scaled + 0.5, iy * scaled + 0.5).
Pos[ix \in Double, iy \in Double, scaled \in Double] ==
  << FAdd[FMul[ix, scaled], Half], FAdd[FMul[iy, scaled], Half] >>

\* The fragment-shader logic: pos for the centred coordinates (ix, iy).
Fragment[ix \in Double, iy \in Double, elasticity \in Double] ==
  Pos[ix, iy, Scaled[ix, iy, elasticity]]

\* (dx, dy) = (pos.x * w - x, pos.y * h - y).
Offset[x \in Nat, y \in Nat, w \in Nat, h \in Nat, pos \in Double \X Double] ==
  << FSub[FMul[pos[1], FromInt[w]], FromInt[x]],
     FSub[FMul[pos[2], FromInt[h]], FromInt[y]] >>

\* The body of the first loop for the pixel at data offset i (a multiple of
\* 4) of a w x h region: the pair <<dx, dy>> it pushes on rawValues.
RawOffset(i, w, h, elasticity) ==
  LET x == (i \div 4) % w
      y == (i \div 4) \div w
  IN  Offset[x, y, w, h,
             Fragment[FSub[FDiv[FromInt[x], FromInt[w]], Half],
                      FSub[FDiv[FromInt[y], FromInt[h]], Half], elasticity]]

\* maxScale *= 0.5 * displacementScale, after the first loop.
FinalMaxScale(maxAbs, displacementScale) == FMul[maxAbs, FMul[Half, displacementScale]]

\* r (or g) of the second loop for one raw value: raw / maxScale + 0.5.
EncodeChannel(raw, maxScale) == FAdd[FDiv[raw, maxScale], Half]

\* r * 255 (or g * 255), the number stored into data.
TimesByte(v) == FMul[v, FromInt[255]]


\* --------------------------------------------------------------- state
VARIABLES
  width, height,                  \* useState: the container size, in 1/SubPx pixel
  elasticity, displacementScale,  \* props read by updateShader
  canvas,                         \* the hidden canvas: its size and its pixels
  href, scale,                    \* feImage href and feDisplacementMap scale
  pc,                             \* where the running updateShader is
  w, h, data, maxScale, rawValues, i, index, r, g,   \* locals of updateShader
  lastExit,                       \* how the last updateShader call ended
  observing,                      \* the ResizeObserver is installed
  queued,                         \* sizes set by setWidth/setHeight, not yet rendered
  effectPending                   \* the updateShader effect is due

genVars == << canvas, href, scale, pc, w, h, data, maxScale, rawValues, i, index,
              r, g, lastExit >>
propVars == << width, height, elasticity, displacementScale >>
compVars == << observing, queued, effectPending >>
vars == << propVars, genVars, compVars >>

\* A size of width x height pixels is held in units of 1/SubPx pixel, so that
\* the fractional sizes a contentRect reports exist in the model.
SubPx == 2

canvasDPI == 1

\* Math.floor(width * canvasDPI) for a size in 1/SubPx pixel.
FloorPx(size) == (size * canvasDPI) \div SubPx

\* w (or h) of updateShader: Math.max(1, Math.floor(size * canvasDPI)).
ShaderDim(size) == Max2(1, FloorPx(size))

\* The buffer allocated with three channels a texel instead of four.
NewBuffer_ThreeChannels(wd, ht) == [k \in 1..(wd * ht * 3) |-> 0]

\* new Uint8ClampedArray(w * h * 4): all zero.
NewBuffer(wd, ht) == [k \in 1..(wd * ht * 4) |-> 0]

\* The running maximum with Math.abs(dy) left out.
RunningMax_NoDy(m, off) == FMax[m, FAbs[off[1]]]

\* maxScale = Math.max(maxScale, Math.abs(dx), Math.abs(dy)).
RunningMax(m, off) == FMax[FMax[m, FAbs[off[1]]], FAbs[off[2]]]

\* The push with dx and dy in the wrong order.
PushRaw_Swapped(raw, off) == raw \o << off[2], off[1] >>

\* rawValues.push(dx, dy).
PushRaw(raw, off) == raw \o << off[1], off[2] >>

\* The stores with the alpha store left out (alpha stays 0).
StoreTexel_NoAlpha(buf, at, rv, gv) ==
  [buf EXCEPT ![at + 1] = ToUint8Clamped[TimesByte(rv)],
              ![at + 2] = ToUint8Clamped[TimesByte(gv)],
              ![at + 3] = 0]

\* The four stores of the second loop for the texel at offset at (0-based).
StoreTexel(buf, at, rv, gv) ==
  [buf EXCEPT ![at + 1] = ToUint8Clamped[TimesByte(rv)],
              ![at + 2] = ToUint8Clamped[TimesByte(gv)],
              ![at + 3] = 0,
              ![at + 4] = 255]

\* The attribute values before updateShader has ever set them.
NoHref == [w |-> 0, h |-> 0, pixels |-> << >>]
NoScale == [set |-> FALSE, val |-> Zero(0)]

\* canvas.toDataURL(): the lossless image of the canvas, its size and pixels.
ToDataURL(cv) == [w |-> cv.width, h |-> cv.height, pixels |-> cv.pixels]

\* (maxScale / canvasDPI).toString(): the attribute is the shortest decimal
\* that reads back as the quotient, and is held as the number it denotes.
ScaleAttr(m) == [set |-> TRUE, val |-> FDiv[m, FromInt[canvasDPI]]]

\* The ways a call can end without a result before it allocates the buffer.
EarlyExits == {"noCanvas", "noFeImage", "noFeDisplacementMap", "noContext"}

\* What the try block does: run through, or throw at one of its three calls.
TryOutcomes == {"ok", "throwImageData", "throwPutImageData", "throwToDataURL"}

\* Whether the try block reaches context.putImageData's effect on the canvas.
Painted(outcome) == outcome \in {"ok", "throwToDataURL"}

\* The attributes written although toDataURL threw.
Published_DespiteThrow(outcome) == outcome \in {"ok", "throwToDataURL"}

\* Whether the try block reaches the two setAttribute calls.
Published(outcome) == outcome = "ok"

\* The inputs SpecGen hands to updateShader.
GenSizes == {0, SubPx + 1} \cup {k * SubPx : k \in 2..MaxDim}
Elasticities == {Lit(2, 10), Lit(6, 10), FromInt[1]}
DisplacementScales == {FromInt[0], FromInt[1], FromInt[4]}

InitLocals ==
  /\ pc = "idle"
  /\ w = 0 /\ h = 0 /\ data = << >> /\ maxScale = Zero(0) /\ rawValues = << >>
  /\ i = 0 /\ index = 0 /\ r = Zero(0) /\ g = Zero(0)
  /\ lastExit = "none"

\* ------------------------------------------- updateShader, step by step
\* Lines 69-93 of a call whose closure holds the current sizes and elasticity
\* and the displacementScale ds: the ref and context checks (exit names the
\* one that fails, if any), w and h, the canvas resize, the allocations.
Begin(ds, exit) ==
  /\ pc = "idle"
  /\ displacementScale' = ds
  /\ UNCHANGED << width, height, elasticity, href, scale, compVars >>
  /\ IF exit \in EarlyExits
     THEN /\ lastExit' = exit
          /\ UNCHANGED << canvas, pc, w, h, data, maxScale, rawValues, i, index, r, g >>
     ELSE LET nw == ShaderDim(width)
              nh == ShaderDim(height)
          IN  IF nw <= 0 \/ nh <= 0
              THEN /\ lastExit' = "invalidDimension"
                   /\ UNCHANGED << canvas, pc, w, h, data, maxScale, rawValues, i,
                                   index, r, g >>
              ELSE /\ canvas' = IF canvas.width # nw \/ canvas.height # nh
                                THEN [width |-> nw, height |-> nh, pixels |-> << >>]
                                ELSE canvas
                   /\ w' = nw /\ h' = nh
                   /\ data' = NewBuffer(nw, nh)
                   /\ maxScale' = Zero(0) /\ rawValues' = << >> /\ i' = 0
                   /\ pc' = "pass1" /\ lastExit' = "running"
                   /\ UNCHANGED << index, r, g >>

\* One iteration of the first loop (lines 95-116).
Pass1Step ==
  /\ pc = "pass1" /\ i < Len(data)
  /\ LET off == RawOffset(i, w, h, elasticity)
     IN  /\ maxScale' = RunningMax(maxScale, off)
         /\ rawValues' = PushRaw(rawValues, off)
  /\ i' = i + 4
  /\ UNCHANGED << propVars, compVars, canvas, href, scale, pc, w, h, data, index,
                  r, g, lastExit >>

\* The first loop ends: lines 118-120.
EndPass1 ==
  /\ pc = "pass1" /\ i >= Len(data)
  /\ maxScale' = FinalMaxScale(maxScale, displacementScale)
  /\ index' = 0 /\ i' = 0 /\ pc' = "pass2"
  /\ UNCHANGED << propVars, compVars, canvas, href, scale, w, h, data, rawValues,
                  r, g, lastExit >>

\* One iteration of the second loop (lines 121-128).
Pass2Step ==
  /\ pc = "pass2" /\ i < Len(data)
  /\ r' = EncodeChannel(rawValues[index + 1], maxScale)
  /\ g' = EncodeChannel(rawValues[index + 2], maxScale)
  /\ data' = StoreTexel(data, i, r', g')
  /\ index' = index + 2
  /\ i' = i + 4
  /\ UNCHANGED << propVars, compVars, canvas, href, scale, pc, w, h, maxScale,
                  rawValues, lastExit >>

\* The second loop ends: the length check and the try block (lines 130-164).
Transfer(outcome) ==
  /\ pc = "pass2" /\ i >= Len(data)
  /\ pc' = "idle"
  /\ IF Len(data) # w * h * 4
     THEN /\ lastExit' = "lengthMismatch"
          /\ UNCHANGED << canvas, href, scale >>
     ELSE /\ lastExit' = IF outcome = "ok" THEN "ok" ELSE "threw"
          /\ canvas' = IF Painted(outcome) THEN [canvas EXCEPT !.pixels = data]
                       ELSE canvas
          /\ href' = IF Published(outcome) THEN ToDataURL(canvas') ELSE href
          /\ scale' = IF Published(outcome) THEN ScaleAttr(maxScale) ELSE scale
  /\ UNCHANGED << propVars, compVars, w, h, data, maxScale, rawValues, i, index, r, g >>

\* The canvas element as React renders it (lines 244-249): its width and
\* height attributes parse to the integer part of the sizes; no pixels yet.
RenderedCanvas(wd, ht) ==
  [width |-> FloorPx(wd), height |-> FloorPx(ht), pixels |-> << >>]

\* updateShader as a function of its closure: the sizes and the two props are
\* drawn from the bounded inputs, and the call is stepped to its end; it may
\* be made again, with the same or another displacementScale.
InitGen ==
  /\ width \in GenSizes /\ height \in GenSizes
  /\ elasticity \in Elasticities /\ displacementScale \in DisplacementScales
  /\ canvas = RenderedCanvas(width, height)
  /\ href = NoHref /\ scale = NoScale
  /\ InitLocals
  /\ observing = FALSE /\ queued = << >> /\ effectPending = FALSE

NextGen ==
  \/ \E ds \in DisplacementScales, exit \in EarlyExits \cup {"none"} : Begin(ds, exit)
  \/ Pass1Step
  \/ EndPass1
  \/ Pass2Step
  \/ \E outcome \in TryOutcomes : Transfer(outcome)

SpecGen == InitGen /\ [][NextGen]_vars


\* ------------------------------------------------------ the component
MinSize == 100
InitWidth == 300
InitHeight == 200

\* The size stored without the minimum.
ClampSize_None(size) == size

\* Math.max(newWidth, 100) (and the same for the height), in 1/SubPx pixel.
ClampSize(size) == Max2(size, MinSize * SubPx)

\* The sizes a contentRect reports here: empty (below the minimum), and a
\* fractional size above it.
RectSizes == {0, (MinSize + 1) * SubPx + 1}

\* The displacementScale props the parent passes: the default and the one
\* LiquidGlassCard passes.
CardDisplacementScales == {FromInt[1], FromInt[4]}

\* The entries of one ResizeObserver callback: 1..MaxEntries sizes.
EntryLists ==
  UNION {[1..n -> [width : RectSizes, height : RectSizes]] : n \in 1..MaxEntries}

\* The for loop of the callback (lines 181-185): every entry calls setWidth
\* and setHeight; the last values set are the ones the next render sees.
RECURSIVE SetSizes(_, _)
SetSizes(q, entries) ==
  IF entries = << >> THEN q
  ELSE SetSizes(<< [width |-> ClampSize(Head(entries).width),
                    height |-> ClampSize(Head(entries).height)] >>,
                Tail(entries))

\* The dependency list with height missing.
DepsChanged_NoHeight(ow, oh, oe, ods, nw, nh, ne, nds) ==
  ow # nw \/ oe # ne \/ ods # nds

\* The dependency list of updateShader's useCallback (lines 165-173): whether
\* a render gives the effect a new updateShader.
DepsChanged(ow, oh, oe, ods, nw, nh, ne, nds) ==
  ow # nw \/ oh # nh \/ oe # ne \/ ods # nds

\* In SpecComp the regions are 100 pixels and more on a side, and the two
\* passes run inside one step: the buffer they fill and the maxScale they
\* leave are represented by the inputs they are computed from.
PassesData(wd, ht, e, ds) == << "data", wd, ht, e, ds >>
PassesMaxScale(wd, ht, e, ds) == << "maxScale", wd, ht, e, ds >>

\* The early exits a call made by the effect can take: the svg and canvas
\* elements are rendered unconditionally (lines 203-249), so the three refs
\* are set when effects run, and only getContext can fail.
MountedExits == {"noContext"}

\* A render of the component with state (nw, nh) and props (ne, nds): a
\* changed width or height attribute resets the canvas, and the effect is due
\* when updateShader changed.
Commit(nw, nh, ne, nds) ==
  /\ width' = nw /\ height' = nh /\ elasticity' = ne /\ displacementScale' = nds
  /\ queued' = << >>
  /\ canvas' = IF nw * canvasDPI # width * canvasDPI \/ nh * canvasDPI # height * canvasDPI
               THEN RenderedCanvas(nw, nh)
               ELSE canvas
  /\ effectPending' = DepsChanged(width, height, elasticity, displacementScale,
                                  nw, nh, ne, nds)
  /\ UNCHANGED << observing, href, scale, pc, w, h, data, maxScale, rawValues, i,
                  index, r, g, lastExit >>

\* The ResizeObserver callback (lines 180-186).
ResizeObserverCallback(entries) ==
  /\ observing
  /\ queued' = SetSizes(queued, entries)
  /\ UNCHANGED << propVars, genVars, observing, effectPending >>

\* React renders the queued state; effects of the last render run first.
RenderState ==
  /\ queued # << >> /\ ~effectPending
  /\ Commit(queued[1].width, queued[1].height, elasticity, displacementScale)

\* The parent renders the component with new props (and any queued state).
RenderProps(e, ds) ==
  /\ ~effectPending
  /\ e # elasticity \/ ds # displacementScale
  /\ IF queued # << >>
     THEN Commit(queued[1].width, queued[1].height, e, ds)
     ELSE Commit(width, height, e, ds)

\* The effects of a render run (lines 176-198): on mount the observer is
\* installed, and updateShader is called, here as one step.  outcome names
\* the check that fails or the call that throws, if any.
RunEffects(outcome) ==
  /\ effectPending
  /\ effectPending' = FALSE /\ observing' = TRUE
  /\ UNCHANGED << propVars, queued, pc, data, maxScale, rawValues, i, index, r, g >>
  /\ IF outcome \in EarlyExits
     THEN /\ lastExit' = outcome
          /\ UNCHANGED << canvas, href, scale, w, h >>
     ELSE LET nw == ShaderDim(width)
              nh == ShaderDim(height)
              sized == IF canvas.width # nw \/ canvas.height # nh
                       THEN [width |-> nw, height |-> nh, pixels |-> << >>]
                       ELSE canvas
              buf == PassesData(nw, nh, elasticity, displacementScale)
              ms == PassesMaxScale(nw, nh, elasticity, displacementScale)
          IN  IF nw <= 0 \/ nh <= 0
              THEN /\ lastExit' = "invalidDimension"
                   /\ UNCHANGED << canvas, href, scale, w, h >>
              ELSE /\ w' = nw /\ h' = nh
                   /\ lastExit' = IF outcome = "ok" THEN "ok" ELSE "threw"
                   /\ canvas' = IF Painted(outcome) THEN [sized EXCEPT !.pixels = buf]
                                ELSE sized
                   /\ href' = IF Published(outcome) THEN ToDataURL(canvas') ELSE href
                   /\ scale' = IF Published(outcome) THEN [set |-> TRUE, val |-> ms]
                               ELSE scale

InitComp ==
  /\ width = InitWidth * SubPx /\ height = InitHeight * SubPx
  /\ elasticity \in Elasticities /\ displacementScale \in CardDisplacementScales
  /\ canvas = RenderedCanvas(width, height)
  /\ href = NoHref /\ scale = NoScale
  /\ InitLocals
  /\ observing = FALSE /\ queued = << >> /\ effectPending = TRUE

NextComp ==
  \/ \E entries \in EntryLists : ResizeObserverCallback(entries)
  \/ RenderState
  \/ \E e \in Elasticities, ds \in CardDisplacementScales : RenderProps(e, ds)
  \/ \E outcome \in MountedExits \cup TryOutcomes : RunEffects(outcome)

SpecComp == InitComp /\ [][NextComp]_vars


\* ------------------------------------------------ properties: SpecGen
\* Texels the second loop has encoded so far.
Encoded == IF pc = "pass2" THEN i \div 4 ELSE 0

\* Both loops are done and the buffer is about to be checked and handed over.
RunComplete == pc = "pass2" /\ i >= Len(data)

\* The R (c = 1) or G (c = 2) byte of texel (x, y) of the buffer.
ByteAt(x, y, c) == data[4 * (y * w + x) + c]

\* The raw dx (c = 1) or dy (c = 2) the first pass recorded for texel (x, y).
RawAt(x, y, c) == rawValues[2 * (y * w + x) + c]

\* The byte the second loop stores for the raw value v under maxScale m.
EncodedByte(v, m) == ToUint8Clamped[TimesByte(EncodeChannel(v, m))]

\* The largest |dx| or |dy| over all pixels of the region, from the pixels.
MaxAbsOffset ==
  LET all == {FAbs[RawOffset(4 * k, w, h, elasticity)[c]] : k \in 0..(w * h - 1), c \in 1..2}
  IN  CHOOSE m \in all : \A n \in all : FLeq(n, m)

\* What the filter decodes from a byte v: (v / 255 - 0.5) * maxScale.
Decoded(v, m) == FMul[FSub[FDiv[FromInt[v], FromInt[255]], Half], m]

\* r * 255 (or g * 255) is a finite number in [0, 255].
InByteRange(x) ==
  LET p == TimesByte(x)
  IN  p.cls = "fin" /\ FLeq(FromInt[0], p) /\ FLeq(p, FromInt[255])

\* C1: r and g are never the result of a division by zero (they are finite
\* numbers), and no scale of zero is published to the filter.
C1_NoDivisionByZero ==
  /\ r.cls = "fin" /\ g.cls = "fin"
  /\ scale.set => ~IsZero(scale.val)

\* C3: the buffer of a running call has length 4 * w * h with w, h >= 1; what
\* the canvas and the feImage href received has length 4 * width * height of
\* its own size, and no call ends on the length-mismatch path.
C3_BufferLength ==
  /\ pc \in {"pass1", "pass2"} => w >= 1 /\ h >= 1 /\ Len(data) = 4 * w * h
  /\ canvas.pixels # << >> => Len(canvas.pixels) = 4 * canvas.width * canvas.height
  /\ href # NoHref => Len(href.pixels) = 4 * href.w * href.h
  /\ lastExit # "lengthMismatch"

C3_Witness == lastExit = "ok" /\ Len(href.pixels) = 4 * MaxDim * MaxDim

\* C4: every texel the second loop has written, and every texel of a buffer
\* handed to the canvas or the href, has blue 0 and alpha 255, also when
\* displacementScale is 0.
C4_BlueAlpha ==
  /\ \A k \in 0..(Encoded - 1) : data[4 * k + 3] = 0 /\ data[4 * k + 4] = 255
  /\ \A k \in 1..(Len(canvas.pixels) \div 4) :
        canvas.pixels[4 * k - 1] = 0 /\ canvas.pixels[4 * k] = 255
  /\ \A k \in 1..(Len(href.pixels) \div 4) :
        href.pixels[4 * k - 1] = 0 /\ href.pixels[4 * k] = 255

C4_Witness ==
  /\ RunComplete /\ IsZero(displacementScale) /\ w = MaxDim /\ h = MaxDim
  /\ Len(href.pixels) = 4 * MaxDim * MaxDim

\* C5: for displacementScale > 0, r * 255 and g * 255 of every texel lie in
\* [0, 255] before they are stored.
C5_EncodedInRange ==
  (FLess(FromInt[0], displacementScale) /\ pc = "pass2" /\ i > 0) =>
    InByteRange(r) /\ InByteRange(g)

\* C6: once the first pass is done maxScale is >= 0 and is the largest |dx| or
\* |dy| of any pixel times 0.5 * displacementScale, and every stored R and G
\* byte decodes to a displacement of at most maxScale in absolute value.
C6_MaxScale ==
  pc = "pass2" =>
    /\ FLeq(FromInt[0], maxScale)
    /\ maxScale = FMul[MaxAbsOffset, FMul[Half, displacementScale]]
    /\ \A k \in 0..(Encoded - 1) : \A c \in 1..2 :
          FLeq(FAbs[Decoded(data[4 * k + c], maxScale)], maxScale)

C6_Witness == RunComplete /\ w = 1 /\ h = MaxDim /\ FLess(FromInt[0], maxScale)

\* C7 as stated: in a square region the R bytes (and the G bytes) of texel
\* (x, y) and of texel (w-1-x, h-1-y) add up to 255, up to one unit of
\* rounding.  Stated for displacementScale >= 4, where no encoded value
\* leaves [0, 1], so that no saturation is involved.
C7_RotationAboutCenter ==
  (RunComplete /\ w = h /\ FLeq(FromInt[4], displacementScale)) =>
    \A x \in 0..(w - 1), y \in 0..(h - 1), c \in 1..2 :
      Abs(ByteAt(x, y, c) + ByteAt(w - 1 - x, h - 1 - y, c) - 255) <= 1

\* The rounding error allowed between two offsets of a region of side n that
\* are each other's negation in exact arithmetic: n * 2^-50.
NegationSlack(n) == FMul[FromInt[n], Fin(0, -102, LimbBase \div 16, 0)]

\* C7, amended: in a square region, for displacementScale > 0, texel (x, y)
\* and texel (w-x, h-y), 1 <= x < w and 1 <= y < h, have raw dx and dy that
\* are negations of each other up to floating-point rounding (they add up to
\* at most w * 2^-50 in absolute value), and their R bytes (and their G
\* bytes) add up to 255, up to one unit of rounding.
C7_RotationAboutSample ==
  (RunComplete /\ w = h /\ FLess(FromInt[0], displacementScale)) =>
    \A x \in 1..(w - 1), y \in 1..(h - 1), c \in 1..2 :
      /\ FLeq(FAbs[FAdd[RawAt(x, y, c), RawAt(w - x, h - y, c)]], NegationSlack(w))
      /\ Abs(ByteAt(x, y, c) + ByteAt(w - x, h - y, c) - 255) <= 1

C7_Witness ==
  /\ RunComplete /\ w = h /\ w >= 3 /\ FLess(FromInt[0], displacementScale)
  /\ ~IsZero(RawAt(1, 2, 1)) /\ ~IsZero(RawAt(1, 2, 2))
  /\ \E x \in 1..(w - 1), y \in 1..(h - 1), c \in 1..2 :
        RawAt(x, y, c) # FNeg[RawAt(w - x, h - y, c)]

\* The last updateShader call ended without a result.
EndedWithoutResult ==
  lastExit \in EarlyExits \cup {"invalidDimension", "lengthMismatch", "threw"}

\* C8: a step that ends a call of updateShader without a result (a missing
\* ref, no 2D context, an invalid dimension, a length mismatch, a throw in
\* the try block) leaves the href and the scale as they were.
C8_FailureKeepsFilter ==
  [][EndedWithoutResult' => (href' = href /\ scale' = scale)]_vars

C8_Witness ==
  /\ pc = "idle" /\ EndedWithoutResult /\ lastExit = "threw"
  /\ href # NoHref /\ scale.set /\ href.pixels # data

\* C10: while the first pass runs no texel is encoded and it has recorded two
\* raw values for each pixel scanned; in the second pass all 2 * w * h raw
\* values are there, every texel k encoded so far holds the bytes of the
\* offsets of that same pixel k under the one maxScale, and the texels not
\* yet reached are untouched.
C10_TwoPasses ==
  /\ pc = "pass1" => data = NewBuffer(w, h) /\ Len(rawValues) = 2 * (i \div 4)
  /\ pc = "pass2" =>
       /\ Len(rawValues) = 2 * w * h
       /\ \A k \in 0..(Encoded - 1) : \A c \in 1..2 :
             data[4 * k + c] = EncodedByte(RawOffset(4 * k, w, h, elasticity)[c], maxScale)
       /\ \A k \in Encoded..(w * h - 1) : \A c \in 1..4 : data[4 * k + c] = 0

C10_Witness ==
  /\ pc = "pass2" /\ w = MaxDim /\ h = 2 /\ Encoded = w + 1
  /\ data[4 * w + 1] # data[4 * w + 2]


\* ----------------------------------------------- properties: SpecComp
\* What a successful updateShader publishes for the rendered sizes and props.
CurrentImage ==
  [w |-> ShaderDim(width), h |-> ShaderDim(height),
   pixels |-> PassesData(ShaderDim(width), ShaderDim(height), elasticity,
                         displacementScale)]

CurrentScale ==
  [set |-> TRUE,
   val |-> PassesMaxScale(ShaderDim(width), ShaderDim(height), elasticity,
                          displacementScale)]

\* Every size set has been rendered and every effect due has run.
Settled == ~effectPending /\ queued = << >>

\* C2 as stated: once every triggered updateShader has run, the href and the
\* scale are the ones computed from the current width, height, elasticity
\* and displacementScale.
C2_LatestInputsPublished ==
  Settled => href = CurrentImage /\ scale = CurrentScale

\* C2, amended: once every triggered updateShader has run, and the last one
\* ended with a result, the href and the scale are the ones computed from the
\* current width, height, elasticity and displacementScale.
C2_LatestResultPublished ==
  (Settled /\ lastExit = "ok") => href = CurrentImage /\ scale = CurrentScale

C2_Witness ==
  /\ Settled /\ lastExit = "ok"
  /\ width = MinSize * SubPx /\ height = (MinSize + 1) * SubPx + 1
  /\ href.w = MinSize /\ href.h = MinSize + 1

\* C9: the stored width and height are at least 100 pixels, so w and h of
\* updateShader are at least 100, and no call ends on the invalid-dimension
\* path.
C9_SizesAtLeastMinimum ==
  /\ width >= MinSize * SubPx /\ height >= MinSize * SubPx
  /\ ShaderDim(width) >= MinSize /\ ShaderDim(height) >= MinSize
  /\ lastExit \in {"ok", "threw"} => w >= 1 /\ h >= 1
  /\ lastExit # "invalidDimension"

C9_Witness ==
  /\ width = MinSize * SubPx /\ height = MinSize * SubPx
  /\ lastExit = "ok" /\ w = MinSize /\ h = MinSize

=============================================================================
